---- MODULE Spec2Model ----
(***************************************************************************)
(* The bulk-export protocol of veetility/rivaliq_functions.py:             *)
(*   get_bulkSocialPosts -> check_bulkDownload_status (recursive poll,     *)
(*   through get_bulkDownload_status) -> download_bulkSocialPosts_csv.     *)
(* Every network call is two steps, the request going out and the          *)
(* response coming back; the remote's answers are chosen freely.           *)
(***************************************************************************)
EXTENDS Integers, Sequences, FiniteSets, TLC

\* ------------------------------------------------------------- bounds
\* The remote answers "in progress" at most this many times to one poll.
MaxInProgress == 3
\* Lines of a result body.
MaxLines == 3

\* ---------------------------------------------------------- constants
\* time.sleep(60) between two status queries.
SleepSeconds == 60
\* The submission endpoint's "accepted" status.
HTTP_ACCEPTED == 202
\* The success status of the status and download endpoints.
HTTP_OK == 200
\* The remote job statuses the poll tells apart.
STATUS_READY == 2
STATUS_FAILED == 3

\* ------------------------------------------------------------- values
Callers == {1, 2}
Tokens == {"tokA", "tokB"}
Hrefs == {"urlA", "urlB"}
HttpCodes == {HTTP_OK, HTTP_ACCEPTED, 500}
JobStatuses == 0..3
NoToken == ""
NoLink == ""

\* A result body: its lines, each the number of comma-separated fields.
RECURSIVE SeqsUpTo(_, _)
SeqsUpTo(S, n) ==
    IF n = 0 THEN {<<>>}
    ELSE LET shorter == SeqsUpTo(S, n - 1)
         IN  shorter \cup {Append(s, x) : s \in {t \in shorter : Len(t) = n - 1}, x \in S}
FieldCounts == {1, 2}
Bodies == SeqsUpTo(FieldCounts, MaxLines)

NoSubmitResponse == [code |-> 0, token |-> NoToken]
NoFetchResponse == [code |-> 0, body |-> <<>>]
NoError == [type |-> "", msg |-> "", code |-> 0]
Unset == [kind |-> "unset", rows |-> 0]
None == [kind |-> "None", rows |-> 0]
DataFrame(n) == [kind |-> "DataFrame", rows |-> n]

VARIABLES
    pc,           \* where each caller's invocation of get_bulkSocialPosts stands
    save_csv,     \* the save_csv argument of the invocation
    outstanding,  \* requests sent and not yet answered
    events,       \* the requests sent and sleeps taken, in order
    statuses,     \* the responses received to the status queries, in order
    submitted,    \* the response received to the submission: its status and token
    token,        \* get_bulkSocialPosts: token
    downloadToken,\* check_bulkDownload_status: downloadToken
    elapsed,      \* seconds slept since start_time
    link,         \* the value check_bulkDownload_status returned
    written,      \* whether the csv file was written
    fetched,      \* the response received to the result download
    ret,          \* the value get_bulkSocialPosts returned
    raised        \* the exception that left get_bulkSocialPosts

\* The state outside the bulk export: the clock, what the two modules fixed
\* when they were loaded, the mailbox object, the files on disk and the last
\* call made of a synchronous function.
VARIABLES
    now,          \* the current date: an index into Calendar
    today,        \* vee_mails: today, assigned when the module is loaded
    mainPeriodEnd,\* rivaliq_functions: the default of mainPeriodEnd, evaluated at def
    search_string,\* VEEmail.search_string
    files,        \* the files that exist on disk
    call          \* the last call: the function, its inputs, what it sent and gave

libVars == <<now, today, mainPeriodEnd, search_string, files, call>>

vars == <<pc, save_csv, outstanding, events, statuses, submitted, token,
          downloadToken, elapsed, link, written, fetched, ret, raised, libVars>>

\* The days the clock passes through, as datetime.today() formats them:
\* strftime('%Y-%m-%d') and strftime("%d-%b-%Y").
Calendar ==
    << [iso |-> "2023-12-31", imap |-> "31-Dec-2023"],
       [iso |-> "2024-01-01", imap |-> "01-Jan-2024"],
       [iso |-> "2024-01-02", imap |-> "02-Jan-2024"] >>
Days == DOMAIN Calendar
IsoDate(d) == Calendar[d].iso
ImapDate(d) == Calendar[d].imap

NoCall == [op |-> ""]

\* The modules are loaded on the first day; nothing outside the export runs.
LibIdle ==
    /\ now = 1
    /\ today = 1
    /\ mainPeriodEnd = IsoDate(1)
    /\ search_string = <<>>
    /\ files = {}
    /\ call = NoCall

\* ------------------------------------------------------------ helpers
Exception(code) == [type |-> "Exception", msg |-> "Error", code |-> code]
DownloadFailed == [type |-> "Exception", msg |-> "Download Failed!", code |-> 0]
NotSubscriptable == [type |-> "TypeError", msg |-> "'Response' object is not subscriptable", code |-> 0]

Request(op, target) == [op |-> op, target |-> target]
SleepEvent == [op |-> "sleep", target |-> ""]

\* Mutant: every 2xx answer to the submission counts as accepted.
Accepted_2xx(code) == code \in {HTTP_OK, HTTP_ACCEPTED}

\* get_bulkSocialPosts: if response.status_code == 202
Accepted(code) == code = HTTP_ACCEPTED

\* Mutant: every 2xx answer to a status query counts as a success.
StatusOk_2xx(code) == code \in {HTTP_OK, HTTP_ACCEPTED}

\* get_bulkDownload_status: if response.status_code == 200
StatusOk(code) == code = HTTP_OK

\* get_bulkDownload_status: the url carries the token
StatusQuery(tok) == Request("status", tok)

\* Mutant: the ready test is status >= 2, so a failed job counts as ready.
PollOutcome_FailedIsReady(status) ==
    IF status >= STATUS_READY THEN "ready" ELSE "retry"

\* Mutant: every status but failed counts as ready.
PollOutcome_ReadyUnlessFailed(status) ==
    IF status = STATUS_FAILED THEN "failed" ELSE "ready"

\* Mutant: the failed branch is missing, so a failed job is polled again.
PollOutcome_FailedRetries(status) ==
    IF status = STATUS_READY THEN "ready" ELSE "retry"

\* check_bulkDownload_status: the branches on data['status']
PollOutcome(status) ==
    IF status = STATUS_READY THEN "ready"
    ELSE IF status = STATUS_FAILED THEN "failed"
    ELSE "retry"

\* check_bulkDownload_status, status == 3: response['status_code'] is evaluated
\* for the print before the raise statement is reached, and a requests.Response
\* is not subscriptable.
FailedError == NotSubscriptable

\* Mutant: the recursive call passes apiKey in the place of downloadToken.
RecursiveToken_Swapped(tok) == "apiKey"

\* check_bulkDownload_status: the arguments of the recursive call
RecursiveToken(tok) == tok

\* pandas.read_csv on the body: the exception it raises, or "" and the rows.
\* No line at all is EmptyDataError; a line after the first data line with more
\* fields than any line before it is ParserError; the first line is the header.
Widest(body, n) ==
    LET RECURSIVE W(_)
        W(i) == IF i = 0 THEN 0
                ELSE IF body[i] > W(i - 1) THEN body[i] ELSE W(i - 1)
    IN  W(n)
read_csv(body) ==
    IF Len(body) = 0 THEN [exc |-> "EmptyDataError", rows |-> 0]
    ELSE IF \E i \in 3..Len(body) : body[i] > Widest(body, i - 1)
         THEN [exc |-> "ParserError", rows |-> 0]
    ELSE [exc |-> "", rows |-> Len(body) - 1]

\* download_bulkSocialPosts_csv: try / except around pd.read_csv
ParsedOrNone(body) ==
    IF read_csv(body).exc = "" THEN DataFrame(read_csv(body).rows) ELSE None

\* download_bulkSocialPosts_csv: the value returned for a response
DownloadResult(code, body) ==
    IF code = HTTP_OK THEN ParsedOrNone(body) ELSE None

\* ---------------------------------------------------------------- Init
InitOf(running) ==
    /\ pc = [c \in Callers |-> IF c \in running THEN "start" ELSE "none"]
    /\ save_csv \in [Callers -> BOOLEAN]
    /\ \A c \in Callers : c \notin running => ~save_csv[c]
    /\ outstanding = [c \in Callers |-> {}]
    /\ events = [c \in Callers |-> <<>>]
    /\ statuses = [c \in Callers |-> <<>>]
    /\ submitted = [c \in Callers |-> NoSubmitResponse]
    /\ token = [c \in Callers |-> NoToken]
    /\ downloadToken = [c \in Callers |-> NoToken]
    /\ elapsed = [c \in Callers |-> 0]
    /\ link = [c \in Callers |-> NoLink]
    /\ written = [c \in Callers |-> FALSE]
    /\ fetched = [c \in Callers |-> NoFetchResponse]
    /\ ret = [c \in Callers |-> Unset]
    /\ raised = [c \in Callers |-> NoError]

\* One invocation of get_bulkSocialPosts.
Init == InitOf({1}) /\ LibIdle

\* -------------------------------------------------------------- actions
\* get_bulkSocialPosts: requests.get(url, params=body) goes out
get_bulkSocialPosts_send(c) ==
    /\ pc[c] = "start"
    /\ outstanding' = [outstanding EXCEPT ![c] = @ \cup {Request("submit", "")}]
    /\ events' = [events EXCEPT ![c] = Append(@, Request("submit", ""))]
    /\ pc' = [pc EXCEPT ![c] = "submit"]
    /\ UNCHANGED libVars
    /\ UNCHANGED <<save_csv, statuses, submitted, token, downloadToken, elapsed,
                   link, written, fetched, ret, raised>>

\* get_bulkSocialPosts: the response; 202 enters check_bulkDownload_status
get_bulkSocialPosts_recv(c, code, tok) ==
    /\ pc[c] = "submit"
    /\ outstanding' = [outstanding EXCEPT ![c] = @ \ {Request("submit", "")}]
    /\ submitted' = [submitted EXCEPT ![c] = [code |-> code, token |-> tok]]
    /\ IF Accepted(code)
       THEN /\ token' = [token EXCEPT ![c] = tok]
            /\ downloadToken' = [downloadToken EXCEPT ![c] = tok]
            /\ pc' = [pc EXCEPT ![c] = "check"]
            /\ UNCHANGED raised
       ELSE /\ raised' = [raised EXCEPT ![c] = Exception(code)]
            /\ pc' = [pc EXCEPT ![c] = "raised"]
            /\ UNCHANGED <<token, downloadToken>>
    /\ UNCHANGED libVars
    /\ UNCHANGED <<save_csv, events, statuses, elapsed, link, written, fetched, ret>>

\* get_bulkDownload_status: requests.get(url, params=body) goes out
get_bulkDownload_status_send(c) ==
    /\ pc[c] = "check"
    /\ outstanding' = [outstanding EXCEPT ![c] = @ \cup {StatusQuery(downloadToken[c])}]
    /\ events' = [events EXCEPT ![c] = Append(@, StatusQuery(downloadToken[c]))]
    /\ pc' = [pc EXCEPT ![c] = "status"]
    /\ UNCHANGED libVars
    /\ UNCHANGED <<save_csv, statuses, submitted, token, downloadToken, elapsed,
                   link, written, fetched, ret, raised>>

\* The remote's answers to one status query: a ready answer carries the href,
\* a failed one may carry one, an answer with any other status carries none.
StatusResponses ==
    {[code |-> code, status |-> status, href |-> href] :
        code \in HttpCodes, status \in JobStatuses, href \in Hrefs \cup {NoLink}}
WellFormed(resp) ==
    /\ resp.status = STATUS_READY => resp.href \in Hrefs
    /\ resp.status \notin {STATUS_READY, STATUS_FAILED} => resp.href = NoLink
InProgress(resp) == resp.code = HTTP_OK /\ resp.status \notin {STATUS_READY, STATUS_FAILED}

\* check_bulkDownload_status: the response of get_bulkDownload_status and the
\* branches on it
check_bulkDownload_status_recv(c, resp) ==
    /\ pc[c] = "status"
    /\ WellFormed(resp)
    /\ InProgress(resp) => Len(statuses[c]) < MaxInProgress
    /\ outstanding' = [outstanding EXCEPT ![c] = @ \ {StatusQuery(downloadToken[c])}]
    /\ statuses' = [statuses EXCEPT ![c] = Append(@, resp)]
    /\ IF ~StatusOk(resp.code)
       THEN /\ raised' = [raised EXCEPT ![c] = Exception(resp.code)]
            /\ pc' = [pc EXCEPT ![c] = "raised"]
            /\ UNCHANGED link
       ELSE CASE PollOutcome(resp.status) = "ready" ->
                    /\ link' = [link EXCEPT ![c] = resp.href]
                    /\ pc' = [pc EXCEPT ![c] = "download"]
                    /\ UNCHANGED raised
              [] PollOutcome(resp.status) = "failed" ->
                    /\ raised' = [raised EXCEPT ![c] = FailedError]
                    /\ pc' = [pc EXCEPT ![c] = "raised"]
                    /\ UNCHANGED link
              [] OTHER ->
                    /\ pc' = [pc EXCEPT ![c] = "sleep"]
                    /\ UNCHANGED <<link, raised>>
    /\ UNCHANGED libVars
    /\ UNCHANGED <<save_csv, events, submitted, token, downloadToken, elapsed,
                   written, fetched, ret>>

\* Mutant: the time slept is kept in one module-level counter all pollers share.
time_sleep_global(c) ==
    /\ pc[c] = "sleep"
    /\ elapsed' = [d \in Callers |-> elapsed[d] + SleepSeconds]
    /\ events' = [events EXCEPT ![c] = Append(@, SleepEvent)]
    /\ downloadToken' = [downloadToken EXCEPT ![c] = RecursiveToken(@)]
    /\ pc' = [pc EXCEPT ![c] = "check"]
    /\ UNCHANGED libVars
    /\ UNCHANGED <<save_csv, outstanding, statuses, submitted, token, link,
                   written, fetched, ret, raised>>

\* Mutant: the recursive call is made without sleeping.
time_sleep_skipped(c) ==
    /\ pc[c] = "sleep"
    /\ downloadToken' = [downloadToken EXCEPT ![c] = RecursiveToken(@)]
    /\ pc' = [pc EXCEPT ![c] = "check"]
    /\ UNCHANGED libVars
    /\ UNCHANGED <<save_csv, outstanding, events, statuses, submitted, token,
                   elapsed, link, written, fetched, ret, raised>>

\* check_bulkDownload_status: time.sleep(60), then the recursive call
time_sleep(c) ==
    /\ pc[c] = "sleep"
    /\ elapsed' = [elapsed EXCEPT ![c] = @ + SleepSeconds]
    /\ events' = [events EXCEPT ![c] = Append(@, SleepEvent)]
    /\ downloadToken' = [downloadToken EXCEPT ![c] = RecursiveToken(@)]
    /\ pc' = [pc EXCEPT ![c] = "check"]
    /\ UNCHANGED libVars
    /\ UNCHANGED <<save_csv, outstanding, statuses, submitted, token, link,
                   written, fetched, ret, raised>>

\* download_bulkSocialPosts_csv: requests.get(link) goes out
download_bulkSocialPosts_csv_send(c) ==
    /\ pc[c] = "download"
    /\ outstanding' = [outstanding EXCEPT ![c] = @ \cup {Request("download", link[c])}]
    /\ events' = [events EXCEPT ![c] = Append(@, Request("download", link[c]))]
    /\ pc' = [pc EXCEPT ![c] = "fetch"]
    /\ UNCHANGED libVars
    /\ UNCHANGED <<save_csv, statuses, submitted, token, downloadToken, elapsed,
                   link, written, fetched, ret, raised>>

\* download_bulkSocialPosts_csv: the response; get_bulkSocialPosts returns df
download_bulkSocialPosts_csv_recv(c, code, body) ==
    /\ pc[c] = "fetch"
    /\ outstanding' = [outstanding EXCEPT ![c] = @ \ {Request("download", link[c])}]
    /\ written' = [written EXCEPT ![c] = code = HTTP_OK /\ save_csv[c]]
    /\ fetched' = [fetched EXCEPT ![c] = [code |-> code, body |-> body]]
    /\ ret' = [ret EXCEPT ![c] = DownloadResult(code, body)]
    /\ pc' = [pc EXCEPT ![c] = "returned"]
    /\ UNCHANGED libVars
    /\ UNCHANGED <<save_csv, events, statuses, submitted, token, downloadToken,
                   elapsed, link, raised>>

Next ==
    \E c \in Callers :
        \/ get_bulkSocialPosts_send(c)
        \/ \E code \in HttpCodes, tok \in Tokens : get_bulkSocialPosts_recv(c, code, tok)
        \/ get_bulkDownload_status_send(c)
        \/ \E resp \in StatusResponses : check_bulkDownload_status_recv(c, resp)
        \/ time_sleep(c)
        \/ download_bulkSocialPosts_csv_send(c)
        \/ \E code \in HttpCodes, body \in Bodies : download_bulkSocialPosts_csv_recv(c, code, body)

Spec == Init /\ [][Next]_vars

\* --------------------------------------------------------------- claims
Count(c, op) == Cardinality({i \in DOMAIN events[c] : events[c][i].op = op})
Last(s) == s[Len(s)]
Ready(resp) == resp.code = HTTP_OK /\ resp.status = STATUS_READY
Failed(resp) == resp.code = HTTP_OK /\ resp.status = STATUS_FAILED
InProgressCount(c) == Cardinality({i \in DOMAIN statuses[c] : InProgress(statuses[c][i])})

\* The remote answered "in progress" n times and then "ready".
ReadyAfter(c, n) ==
    /\ Len(statuses[c]) = n + 1
    /\ \A i \in 1..n : InProgress(statuses[c][i])
    /\ Ready(statuses[c][n + 1])

C2_FailedRaisesDownloadFailed ==
    \A c \in Callers :
        (statuses[c] # <<>> /\ Failed(Last(statuses[c]))) =>
            /\ pc[c] = "raised"
            /\ raised[c] = DownloadFailed
            /\ outstanding[c] = {}
            /\ Count(c, "status") = Len(statuses[c])
            /\ Count(c, "download") = 0

\* The wait bound the timeout of C3 is measured against.
MaxWaitSeconds == 2 * SleepSeconds

\* C3: while the remote keeps answering in progress, once the time waited
\* exceeds the maximum wait the poll has stopped with a poll-timeout error.
C3_PollTimeout ==
    \A c \in Callers :
        (elapsed[c] > MaxWaitSeconds /\ InProgressCount(c) = Len(statuses[c])) =>
            pc[c] = "raised" /\ raised[c].type = "PollTimeoutError"

\* C4: a non-200 answer to a status query ends the poll at once with an error
\* carrying the status code, with no sleep and no further status query after
\* it; only an HTTP 200 answer with a status other than 2 and 3 is followed by a
\* sleep and another query.
C4_Non200IsHardFailure ==
    \A c \in Callers :
        /\ \A i \in DOMAIN statuses[c] :
               statuses[c][i].code # HTTP_OK =>
                   /\ i = Len(statuses[c])
                   /\ pc[c] = "raised"
                   /\ raised[c] = Exception(statuses[c][i].code)
                   /\ Last(events[c]).op = "status"
                   /\ Count(c, "status") = i
                   /\ outstanding[c] = {}
        /\ \A i \in DOMAIN statuses[c] :
               i < Len(statuses[c]) => InProgress(statuses[c][i])
        /\ Count(c, "sleep") <= InProgressCount(c)
        /\ pc[c] = "sleep" => InProgress(Last(statuses[c]))

C4_Witness ==
    \E c \in Callers :
        /\ Len(statuses[c]) = 2
        /\ Last(statuses[c]).code # HTTP_OK
        /\ Last(statuses[c]).status = STATUS_READY
        /\ pc[c] = "raised"

\* C5: the submission goes on to polling only on HTTP 202; on any other status,
\* 200 included, it raises an error carrying the status code and sends no
\* status query and no result download.
C5_SubmitOnlyAccepted ==
    \A c \in Callers :
        /\ submitted[c].code \notin {0, HTTP_ACCEPTED} =>
               /\ pc[c] = "raised"
               /\ raised[c] = Exception(submitted[c].code)
               /\ events[c] = <<Request("submit", "")>>
               /\ statuses[c] = <<>>
               /\ outstanding[c] = {}
        /\ pc[c] \in {"check", "status", "sleep", "download", "fetch", "returned"} =>
               submitted[c].code = HTTP_ACCEPTED
        /\ (Count(c, "status") > 0 \/ Count(c, "download") > 0) =>
               submitted[c].code = HTTP_ACCEPTED

C5_Witness ==
    \E c \in Callers : submitted[c].code = HTTP_OK /\ pc[c] = "raised"

\* The bodies pd.read_csv raises on: the empty one and the malformed ones.
BadBodies == {b \in Bodies : read_csv(b).exc # ""}

\* C6: when the result download is answered with a non-success status, the
\* fetch raises an error to the caller, so what the caller sees is never what
\* it sees for an empty or malformed body.
C6_FetchFailureRaises ==
    \A c \in Callers :
        fetched[c].code \notin {0, HTTP_OK} =>
            /\ pc[c] = "raised"
            /\ raised[c] # NoError
            /\ ret[c] \notin {DownloadResult(HTTP_OK, b) : b \in BadBodies}

\* C7: when the result download is answered HTTP 200 with an empty or a
\* malformed body, the fetch does not raise and returns a table with no rows,
\* not an absent value.
C7_BadBodyGivesEmptyTable ==
    \A c \in Callers :
        (fetched[c].code = HTTP_OK /\ fetched[c].body \in BadBodies) =>
            /\ pc[c] = "returned"
            /\ raised[c] = NoError
            /\ ret[c] = DataFrame(0)

\* C8: the poll has yielded a retrieval address if and only if the last status
\* response reported HTTP 200 with status 2, the address is that response's
\* href, and the download goes to it; after an in-progress or a failed
\* response there is none.
C8_LinkIffReady ==
    \A c \in Callers :
        /\ link[c] # NoLink <=> (statuses[c] # <<>> /\ Ready(Last(statuses[c])))
        /\ link[c] # NoLink => link[c] = Last(statuses[c]).href
        /\ \A i \in DOMAIN events[c] :
               events[c][i].op = "download" =>
                   link[c] # NoLink /\ events[c][i].target = link[c]

C8_Witness ==
    \E c \in Callers :
        /\ Len(statuses[c]) = 2
        /\ link[c] = "urlB"
        /\ pc[c] = "fetch"

\* C9: one invocation sends its requests in the order submit, one or more
\* status queries, at most one result download, with at most one request
\* outstanding; the download is sent only after a status query was answered
\* ready, and no status query follows it.
C9_CallOrder ==
    \A c \in Callers :
        /\ Cardinality(outstanding[c]) <= 1
        /\ outstanding[c] # {} => outstanding[c] = {Last(events[c])}
        /\ events[c] # <<>> => events[c][1].op = "submit"
        /\ Count(c, "submit") <= 1
        /\ Count(c, "download") <= 1
        /\ \A i \in DOMAIN events[c] :
               events[c][i].op = "download" =>
                   /\ i = Len(events[c])
                   /\ i > 2
                   /\ events[c][i - 1].op = "status"
                   /\ Len(statuses[c]) = Count(c, "status")
                   /\ Ready(Last(statuses[c]))

C9_Witness ==
    \E c \in Callers :
        /\ pc[c] = "fetch"
        /\ Count(c, "status") = 3
        /\ outstanding[c] = {Request("download", link[c])}

\* C10: every status query of one poll, whatever the number of retries,
\* carries the token of the submission response, and the token held by the
\* invocation stays that one.
C10_TokenFixed ==
    \A c \in Callers :
        /\ \A i \in DOMAIN events[c] :
               events[c][i].op = "status" =>
                   events[c][i].target = submitted[c].token
        /\ token[c] # NoToken =>
               token[c] = submitted[c].token /\ downloadToken[c] = token[c]

C10_Witness ==
    \E c \in Callers :
        /\ Count(c, "status") = 3
        /\ submitted[c].token = "tokB"
        /\ pc[c] = "status"

\* ------------------------------------------------- concurrent callers
\* Two independent callers, each in its own invocation of get_bulkSocialPosts,
\* their steps interleaved in every order. The remote's answers are drawn from
\* fewer values than in Spec.
ConcInit == InitOf(Callers) /\ LibIdle

ConcCodes == {HTTP_OK, 500}
ConcStatusResponses ==
    {resp \in StatusResponses :
        /\ resp.code \in ConcCodes
        /\ resp.status \in 1..3
        /\ resp.href \in {NoLink, "urlA"}
        /\ resp.status = STATUS_FAILED => resp.href = NoLink}
ConcBodies == {<<>>, <<1, 1>>}

ConcNext ==
    \E c \in Callers :
        \/ get_bulkSocialPosts_send(c)
        \/ \E code \in {HTTP_ACCEPTED, 500} : get_bulkSocialPosts_recv(c, code, "tokA")
        \/ get_bulkDownload_status_send(c)
        \/ \E resp \in ConcStatusResponses : check_bulkDownload_status_recv(c, resp)
        \/ time_sleep(c)
        \/ download_bulkSocialPosts_csv_send(c)
        \/ \E code \in ConcCodes, body \in ConcBodies : download_bulkSocialPosts_csv_recv(c, code, body)

SpecConc == ConcInit /\ [][ConcNext]_vars

\* Everything one caller's invocation holds.
Local(c) ==
    <<pc[c], save_csv[c], outstanding[c], events[c], statuses[c], submitted[c],
      token[c], downloadToken[c], elapsed[c], link[c], written[c], fetched[c],
      ret[c], raised[c]>>

\* What the caller gets, and what the responses to its own requests make it.
Outcome(c) == <<pc[c], link[c], ret[c], raised[c]>>
OutcomeOfResponses(c) ==
    IF ~Accepted(submitted[c].code)
    THEN <<"raised", NoLink, Unset, Exception(submitted[c].code)>>
    ELSE IF ~StatusOk(Last(statuses[c]).code)
    THEN <<"raised", NoLink, Unset, Exception(Last(statuses[c]).code)>>
    ELSE IF Last(statuses[c]).status = STATUS_FAILED
    THEN <<"raised", NoLink, Unset, FailedError>>
    ELSE <<"returned", Last(statuses[c]).href,
           DownloadResult(fetched[c].code, fetched[c].body), NoError>>

\* C11: with two callers polling concurrently, under every interleaving a
\* step of one caller leaves everything the other holds unchanged, and each
\* caller's outcome (address and table returned, or error raised) is the one
\* the responses to its own requests determine.
C11_PollersIndependent ==
    /\ [](\A c \in Callers :
            pc[c] \in {"returned", "raised"} => Outcome(c) = OutcomeOfResponses(c))
    /\ [][\E d \in Callers : \A c \in Callers \ {d} : Local(c)' = Local(c)]_vars

C11_Witness ==
    /\ pc[1] = "returned"
    /\ pc[2] = "raised"
    /\ Len(statuses[1]) = 2
    /\ Len(statuses[2]) = 3
    /\ elapsed[1] # elapsed[2]

\* ------------------------------------------------------------ progress
\* The invocation keeps running: a request sent is answered, a sleep returns,
\* and the code takes its next step.
SpecFair == Init /\ [][Next]_vars /\ WF_vars(Next)

\* check_bulkDownload_status has returned or raised.
PollEnded(c) ==
    \/ pc[c] \in {"download", "fetch", "returned"}
    \/ pc[c] = "raised" /\ Accepted(submitted[c].code)

pollVars ==
    <<pc, save_csv, outstanding, events, statuses, submitted, token,
      downloadToken, elapsed, link, written, fetched, ret, raised>>

\* A call entered with its arguments and not yet run.
Called(op, args) == [op |-> op, state |-> "called", args |-> args]

\* ---------------------------------------------------------- bounds
\* Entries of a JSON list in a response body.
MaxItems == 2
\* Company ids passed to post_followCompanies.
MaxIds == 11

\* ---------------------------------------------------------- constants
\* post_followCompanies: if len(companyIds) > 10
MAX_FOLLOW == 10

\* The entries of data['landscapes'], data['companies'], data['socialPosts']
\* and data['metrics'].
Items == {[id |-> 1, name |-> "a"], [id |-> 2, name |-> "a"], [id |-> 2, name |-> "b"]}
JsonBodies == SeqsUpTo(Items, MaxItems)

\* mainPeriodEnd as the caller passes it, or leaves it out.
Omitted == "omitted"
EndArgs == {Omitted, "2023-06-30"}

HttpCall(method, url) == [method |-> method, url |-> url]

\* find_landscape_ids: [landscape['id'] for landscape in data['landscapes']]
find_landscape_ids(body) ==
    [kind |-> "list", items |-> [i \in 1..Len(body) |-> body[i].id]]

\* find_company_ids: company_dict[company['name']] = company['id'], in order,
\* so the last entry of a name is the one kept
find_company_ids(body) ==
    [kind |-> "dict",
     items |-> {<<body[i].name, body[i].id>> : i \in
                    {j \in 1..Len(body) :
                        \A k \in (j + 1)..Len(body) : body[k].name # body[j].name}}]

\* socialPosts_json_to_df, summaryMetrics_json_to_df: pd.json_normalize(data, key)
json_to_df(body) == DataFrame(Len(body))

\* get_available_landscapes
get_available_landscapes(code, body) ==
    /\ call = Called("get_available_landscapes", <<>>)
    /\ call' = [op |-> "get_available_landscapes", state |-> "done",
                code |-> code, body |-> body,
                sent |-> <<HttpCall("GET", "landscapes")>>,
                result |-> IF code = HTTP_OK THEN find_landscape_ids(body) ELSE Unset,
                exc |-> IF code = HTTP_OK THEN NoError ELSE Exception(code)]
    /\ UNCHANGED <<now, today, mainPeriodEnd, search_string, files>>
    /\ UNCHANGED pollVars

\* get_landscapeCompanies
get_landscapeCompanies(code, body) ==
    /\ call = Called("get_landscapeCompanies", <<>>)
    /\ call' = [op |-> "get_landscapeCompanies", state |-> "done",
                code |-> code, body |-> body,
                sent |-> <<HttpCall("GET", "companies")>>,
                result |-> IF code = HTTP_OK THEN find_company_ids(body) ELSE Unset,
                exc |-> IF code = HTTP_OK THEN NoError ELSE Exception(code)]
    /\ UNCHANGED <<now, today, mainPeriodEnd, search_string, files>>
    /\ UNCHANGED pollVars

\* get_socialPosts: the dataframe is built, saved when save_csv is set, and
\* the function ends without a return statement
get_socialPosts(code, body) ==
    /\ call.op = "get_socialPosts"
    /\ call.state = "called"
    /\ call' = [op |-> "get_socialPosts", state |-> "done", code |-> code, body |-> body,
                at |-> now, defaulted |-> call.args.end = Omitted,
                date |-> IF call.args.end = Omitted THEN mainPeriodEnd ELSE call.args.end,
                sent |-> <<HttpCall("GET", "socialPosts")>>,
                df |-> IF code = HTTP_OK THEN json_to_df(body) ELSE Unset,
                result |-> IF code = HTTP_OK THEN None ELSE Unset,
                exc |-> IF code = HTTP_OK THEN NoError ELSE Exception(code)]
    /\ files' = IF code = HTTP_OK /\ call.args.save THEN files \cup {"socialPosts.csv"} ELSE files
    /\ UNCHANGED <<now, today, mainPeriodEnd, search_string>>
    /\ UNCHANGED pollVars

\* get_summaryMetrics: as get_socialPosts
get_summaryMetrics(code, body) ==
    /\ call.op = "get_summaryMetrics"
    /\ call.state = "called"
    /\ call' = [op |-> "get_summaryMetrics", state |-> "done", code |-> code, body |-> body,
                at |-> now, defaulted |-> call.args.end = Omitted,
                date |-> IF call.args.end = Omitted THEN mainPeriodEnd ELSE call.args.end,
                sent |-> <<HttpCall("GET", "metrics/summary")>>,
                df |-> IF code = HTTP_OK THEN json_to_df(body) ELSE Unset,
                result |-> IF code = HTTP_OK THEN None ELSE Unset,
                exc |-> IF code = HTTP_OK THEN NoError ELSE Exception(code)]
    /\ files' = IF code = HTTP_OK /\ call.args.save THEN files \cup {"summaryMetrics.csv"} ELSE files
    /\ UNCHANGED <<now, today, mainPeriodEnd, search_string>>
    /\ UNCHANGED pollVars

\* companyIds: the type of each element of the list passed.
IdLists == SeqsUpTo({"int", "str"}, MaxIds)
TooManyError == [type |-> "Exception", msg |-> "At most 10 companies can be followed at a time.", code |-> 0]
NotIntegersError == [type |-> "Exception", msg |-> "All company IDs must be integers.", code |-> 0]

\* Mutant: the length test is >= 10.
TooMany_OffByOne(ids) == Len(ids) >= MAX_FOLLOW

\* post_followCompanies: if len(companyIds) > 10
TooMany(ids) == Len(ids) > MAX_FOLLOW

\* post_followCompanies: all(isinstance(companyId, int) for companyId in companyIds)
AllIntegers(ids) == \A i \in 1..Len(ids) : ids[i] = "int"

\* post_followCompanies
post_followCompanies(code) ==
    /\ call.op = "post_followCompanies"
    /\ call.state = "called"
    /\ call' =
         LET ids == call.args IN
         IF TooMany(ids)
         THEN [op |-> "post_followCompanies", state |-> "done", ids |-> ids, code |-> 0, sent |-> <<>>,
               result |-> Unset, exc |-> TooManyError]
         ELSE IF ~AllIntegers(ids)
         THEN [op |-> "post_followCompanies", state |-> "done", ids |-> ids, code |-> 0, sent |-> <<>>,
               result |-> Unset, exc |-> NotIntegersError]
         ELSE [op |-> "post_followCompanies", state |-> "done", ids |-> ids, code |-> code,
               sent |-> <<[method |-> "POST", url |-> "companies/byId", companyIds |-> ids]>>,
               result |-> IF code = HTTP_OK THEN None ELSE Unset,
               exc |-> IF code = HTTP_OK THEN NoError ELSE Exception(code)]
    /\ UNCHANGED <<now, today, mainPeriodEnd, search_string, files>>
    /\ UNCHANGED pollVars

\* The calls a behaviour may start with.
ApiCalls ==
    {Called("get_available_landscapes", <<>>), Called("get_landscapeCompanies", <<>>)}
    \cup {Called(op, [end |-> end, save |-> save]) :
             op \in {"get_socialPosts", "get_summaryMetrics"},
             end \in EndArgs, save \in BOOLEAN}
    \cup {Called("post_followCompanies", ids) : ids \in IdLists}

\* No export is running; the modules were loaded on the first day.
ApiInit ==
    /\ InitOf({})
    /\ now = 1
    /\ today = 1
    /\ mainPeriodEnd = IsoDate(1)
    /\ search_string = <<>>
    /\ files = {}
    /\ call \in ApiCalls

ApiNext ==
    \/ \E code \in HttpCodes, body \in JsonBodies : get_available_landscapes(code, body)
    \/ \E code \in HttpCodes, body \in JsonBodies : get_landscapeCompanies(code, body)
    \/ \E code \in HttpCodes, body \in JsonBodies : get_socialPosts(code, body)
    \/ \E code \in HttpCodes, body \in JsonBodies : get_summaryMetrics(code, body)
    \/ \E code \in HttpCodes : post_followCompanies(code)

SpecApi == ApiInit /\ [][ApiNext]_vars

SyncOps == {"get_available_landscapes", "get_landscapeCompanies",
            "get_socialPosts", "get_summaryMetrics"}

\* C12: each synchronous analytics function makes exactly one HTTP call; on a
\* success response it returns its parsed result, a table or a collection of
\* identifiers; on a non-2xx response it raises and returns nothing.
C12_SyncOpsReturnParsed ==
    (call.op \in SyncOps /\ call.state = "done") =>
        /\ Len(call.sent) = 1
        /\ call.code = HTTP_OK =>
               /\ call.exc = NoError
               /\ call.result.kind \in {"list", "dict", "DataFrame"}
        /\ call.code \notin 200..299 =>
               /\ call.exc = Exception(call.code)
               /\ call.result = Unset

MaxFound == 3

\* An optional argument: {} is None, {x} is the value x.
Opt(S) == {{}} \cup {{x} : x \in S}
Given(o) == o # {}
The(o) == CHOOSE x \in o : TRUE

\* A message id as the server sends it: a byte string of decimal digits.
IdTokens == {<<2>>, <<9>>, <<1, 0>>, <<1, 2>>}
\* email_ids[0].split(): the ids of one answer, no id twice.
Distinct(ids) == \A i, j \in 1..Len(ids) : ids[i] = ids[j] => i = j
IdAnswers == {ids \in SeqsUpTo(IdTokens, MaxFound) : Distinct(ids)}

\* int(b"..."): the number a byte string of digits denotes
RECURSIVE int(_)
int(digits) ==
    IF Len(digits) = 0 THEN 0
    ELSE 10 * int(SubSeq(digits, 1, Len(digits) - 1)) + digits[Len(digits)]

\* a > b as Python compares two byte strings: byte by byte, then by length
RECURSIVE BytesGreater(_, _)
BytesGreater(a, b) ==
    IF Len(a) = 0 THEN FALSE
    ELSE IF Len(b) = 0 THEN TRUE
    ELSE IF a[1] # b[1] THEN a[1] > b[1]
    ELSE BytesGreater(Tail(a), Tail(b))

\* Mutant: the sort has no key=int, so the ids are compared as byte strings.
Before_Bytes(a, b) == BytesGreater(a, b)

\* sorted(..., key=int, reverse=True): a goes before b
Before(a, b) == int(a) > int(b)

\* sorted(): stable, an element is placed behind those that do not go after it
RECURSIVE Insert(_, _)
Insert(s, x) ==
    IF Len(s) = 0 THEN <<x>>
    ELSE IF Before(x, s[Len(s)])
         THEN Append(Insert(SubSeq(s, 1, Len(s) - 1), x), s[Len(s)])
         ELSE Append(s, x)
RECURSIVE sorted(_)
sorted(ids) ==
    IF Len(ids) = 0 THEN <<>>
    ELSE Insert(sorted(SubSeq(ids, 1, Len(ids) - 1)), ids[Len(ids)])

\* One bracketed item of the search string, (KEY "value"); the string is its
\* items in order, with the space that replace(")(", ") (") puts between them.
Crit(key, value) == [key |-> key, value |-> value]

\* search_emails: the search string built from the arguments
RECURSIVE SubjectItems(_)
SubjectItems(subs) ==
    IF Len(subs) = 0 THEN <<>>
    ELSE <<Crit("SUBJECT", subs[1])>> \o SubjectItems(Tail(subs))
BuildSearchString(args) ==
    (IF Given(args.from_email) THEN <<Crit("FROM", The(args.from_email))>> ELSE <<>>)
    \o (IF Given(args.substrings_in_subject)
        THEN SubjectItems(The(args.substrings_in_subject)) ELSE <<>>)
    \o (IF Given(args.exclude_subject_substring)
        THEN <<Crit("NOT SUBJECT", The(args.exclude_subject_substring))>> ELSE <<>>)
    \o (IF Given(args.send_date) THEN <<Crit("SENTON", The(args.send_date))>> ELSE <<>>)
    \o (IF args.sent_today THEN <<Crit("SENTON", ImapDate(today))>> ELSE <<>>)

BothDatesError ==
    [type |-> "ValueError",
     msg |-> "Cannot use both 'send_date' and 'sent_today' parameters simultaneously.",
     code |-> 0]

\* Mutant: the check of the two date arguments is missing.
BothDates_Unchecked(args) == FALSE

\* search_emails: if send_date is not None and sent_today
BothDates(args) == Given(args.send_date) /\ args.sent_today

\* VEEmail.search_emails
search_emails(status, ids) ==
    /\ call.op = "search_emails"
    /\ call.state = "called"
    /\ status # "OK" => ids = <<>>
    /\ IF BothDates(call.args)
       THEN /\ call' = [op |-> "search_emails", state |-> "done", args |-> call.args,
                        prior |-> search_string, at |-> now, sent |-> <<>>,
                        status |-> "", ids |-> <<>>,
                        result |-> <<>>, exc |-> BothDatesError]
            /\ UNCHANGED search_string
       ELSE /\ search_string' = BuildSearchString(call.args)
            /\ call' = [op |-> "search_emails", state |-> "done", args |-> call.args,
                        prior |-> search_string, at |-> now,
                        sent |-> <<BuildSearchString(call.args)>>,
                        status |-> status, ids |-> ids,
                        result |-> IF status # "OK" THEN <<>> ELSE sorted(ids),
                        exc |-> NoError]
    /\ UNCHANGED <<now, today, mainPeriodEnd, files>>
    /\ UNCHANGED pollVars

\* ---------------------------------------------------------- bounds
\* Pieces of one message body.
MaxBody == 5

\* A body is a sequence of pieces: the scheme that https?:// matches, runs of
\* characters a URL may hold, and a delimiter (one of \s < > " ' ( )).
Scheme == "https://"
Delimiter == " "
Pieces == {Scheme, "a", "b", Delimiter}
MailBodies == SeqsUpTo(Pieces, MaxBody)
BaseUrls == {<<Scheme, "a">>}

\* [^\s<>"\'()]+ from piece i on: the last piece of the longest run, 0 if none
RECURSIVE RunEnd(_, _)
RunEnd(body, i) ==
    IF i > Len(body) \/ body[i] = Delimiter THEN 0
    ELSE IF RunEnd(body, i + 1) = 0 THEN i ELSE RunEnd(body, i + 1)

\* the pattern at piece i: the literal start, then the run; 0 if no match
MatchEnd(body, i, start) ==
    IF /\ i + Len(start) - 1 <= Len(body)
       /\ SubSeq(body, i, i + Len(start) - 1) = start
    THEN RunEnd(body, i + Len(start))
    ELSE 0

\* re.findall: the matches from left to right, none overlapping another
RECURSIVE findall(_, _, _)
findall(start, body, i) ==
    IF i > Len(body) THEN <<>>
    ELSE IF MatchEnd(body, i, start) = 0 THEN findall(start, body, i + 1)
    ELSE <<SubSeq(body, i, MatchEnd(body, i, start))>>
             \o findall(start, body, MatchEnd(body, i, start) + 1)

\* extract_url_from_body: the literal start of the pattern
pattern(base_url) == IF Given(base_url) THEN The(base_url) ELSE <<Scheme>>

NoUrlError ==
    [type |-> "ValueError", msg |-> "No URL found in the email content.", code |-> 0]
ManyUrlsError ==
    [type |-> "ValueError", msg |-> "More than one URL found in the email content.",
     code |-> 0]

\* VEEmail.extract_url_from_body
extract_url_from_body ==
    /\ call.op = "extract_url_from_body"
    /\ call.state = "called"
    /\ call' = LET urls == findall(pattern(call.args.base_url), call.args.body, 1)
               IN  [op |-> "extract_url_from_body", state |-> "done",
                    args |-> call.args, urls |-> urls,
                    result |-> IF Len(urls) = 1 THEN urls[1] ELSE <<>>,
                    exc |-> IF Len(urls) = 1 THEN NoError
                            ELSE IF Len(urls) = 0 THEN NoUrlError
                            ELSE ManyUrlsError]
    /\ UNCHANGED <<now, today, mainPeriodEnd, search_string, files>>
    /\ UNCHANGED pollVars

ExtractArgs == [body : MailBodies, base_url : Opt(BaseUrls)]

\* ---------------------------------------------------------- bounds
\* Lines of one CSV text handed to parse_csv.
MaxCsvLines == 3
\* Parts of one message, as msg.walk() yields them.
MaxParts == 2

\* A line is its cells; <<>> is a blank line.
CsvLines ==
    {<<>>, <<"Daylight", "Owner">>, <<"Day", "1">>, <<"Owner", "Day">>,
     <<"1", "1">>, <<"1", "1", "1">>}
\* csv_content.split('\n'): at least one line, the empty text is one blank line
CsvContents == SeqsUpTo(CsvLines, MaxCsvLines) \ {<<>>}

KeyDefault == <<"Day", "Media Owner", "Venue Type", "Advertiser">>
KeyArgs == Opt({<<"Day">>, <<"Day", "Owner">>})
\* if key_columns == None: key_columns = [...]
KeyColumns(key_columns) == IF Given(key_columns) THEN The(key_columns) ELSE KeyDefault

\* key_column in line, for the cells above: a substring of one of the cells
Substring(key, cell) == key = cell \/ (key = "Day" /\ cell = "Daylight")
\* all(key_column in line for key_column in key_columns)
AllIn(keys, line) ==
    \A k \in 1..Len(keys) : \E c \in 1..Len(line) : Substring(keys[k], line[c])

\* Mutant: the loop has no break, the last line with all key columns wins.
RECURSIVE ScanBack(_, _, _)
ScanBack(lines, keys, i) ==
    IF i = 0 THEN 0
    ELSE IF AllIn(keys, lines[i]) THEN i
    ELSE ScanBack(lines, keys, i - 1)
header_row_index_NoBreak(lines, keys) == ScanBack(lines, keys, Len(lines))

\* parse_csv: the loop over enumerate(lines); 0 is None, lines count from 1
RECURSIVE Scan(_, _, _)
Scan(lines, keys, i) ==
    IF i > Len(lines) THEN 0
    ELSE IF AllIn(keys, lines[i]) THEN i
    ELSE Scan(lines, keys, i + 1)
header_row_index(lines, keys) == Scan(lines, keys, 1)

\* lines[header_row_index:], and lines[None:] is every line
FromHeader(lines, h) == IF h = 0 THEN lines ELSE SubSeq(lines, h, Len(lines))

\* pd.read_csv of text lines: blank lines are skipped, a line counts its fields
RECURSIVE FieldsPerLine(_)
FieldsPerLine(lines) ==
    IF Len(lines) = 0 THEN <<>>
    ELSE (IF lines[1] = <<>> THEN <<>> ELSE <<Len(lines[1])>>)
             \o FieldsPerLine(Tail(lines))
PandasError(name) == [type |-> name, msg |-> "", code |-> 0]
read_csv_text(lines) ==
    LET r == read_csv(FieldsPerLine(lines))
    IN  [exc |-> IF r.exc = "" THEN NoError ELSE PandasError(r.exc),
         df |-> IF r.exc = "" THEN DataFrame(r.rows) ELSE Unset]

\* VEEmail.parse_csv as a function of its arguments
ParseCsv(lines, key_columns) ==
    LET h == header_row_index(lines, KeyColumns(key_columns))
    IN  [header |-> h,
         parsed |-> FromHeader(lines, h),
         exc |-> read_csv_text(FromHeader(lines, h)).exc,
         df |-> read_csv_text(FromHeader(lines, h)).df]

\* VEEmail.parse_csv
parse_csv ==
    /\ call.op = "parse_csv"
    /\ call.state = "called"
    /\ call' = LET r == ParseCsv(call.args.lines, call.args.key_columns)
               IN  [op |-> "parse_csv", state |-> "done", args |-> call.args,
                    header |-> r.header, parsed |-> r.parsed,
                    result |-> r.df, exc |-> r.exc]
    /\ UNCHANGED <<now, today, mainPeriodEnd, search_string, files>>
    /\ UNCHANGED pollVars

ParseArgs == [lines : CsvContents, key_columns : KeyArgs]

\* The payload of an attachment: text that decodes, or bytes that do not.
Payloads ==
    {[decodable |-> TRUE, lines |-> <<<<>>>>],
     [decodable |-> TRUE, lines |-> <<<<"1", "1">>, <<"Day", "1">>, <<"1", "1">>>>],
     [decodable |-> FALSE, lines |-> <<<<>>>>]}
NoPayload == [decodable |-> TRUE, lines |-> <<<<>>>>]
\* The parts msg.walk() yields.
Parts ==
    {[maintype |-> "multipart", type |-> "multipart/mixed", disposition |-> FALSE,
      filename |-> {}, payload |-> NoPayload],
     [maintype |-> "text", type |-> "text/plain", disposition |-> FALSE,
      filename |-> {}, payload |-> NoPayload],
     [maintype |-> "image", type |-> "image/png", disposition |-> TRUE,
      filename |-> {"logo.png"}, payload |-> NoPayload],
     [maintype |-> "application", type |-> "application/octet-stream",
      disposition |-> TRUE, filename |-> {}, payload |-> NoPayload]}
    \cup {[maintype |-> "application", type |-> "application/octet-stream",
           disposition |-> TRUE, filename |-> {"report.csv"}, payload |-> pl] :
              pl \in Payloads}
    \cup {[maintype |-> "text", type |-> "text/csv", disposition |-> TRUE,
           filename |-> {"report.csv"}, payload |-> pl] : pl \in Payloads}
Messages == SeqsUpTo(Parts, MaxParts)

UnboundLocalError ==
    [type |-> "UnboundLocalError", msg |-> "csv_file_path", code |-> 0]
UnicodeDecodeError == [type |-> "UnicodeDecodeError", msg |-> "", code |-> 0]

\* attachments_to_df, the branch of an 'application' part: the file written,
\* the file removed, and what the call returns or raises
ApplicationPart(part, key_columns) ==
    IF ~Given(part.filename)
    THEN [wrote |-> {}, removed |-> {}, result |-> Unset, exc |-> UnboundLocalError]
    ELSE IF ~part.payload.decodable
    THEN [wrote |-> part.filename, removed |-> {}, result |-> Unset,
          exc |-> UnicodeDecodeError]
    ELSE IF ParseCsv(part.payload.lines, key_columns).exc # NoError
    THEN [wrote |-> part.filename, removed |-> {}, result |-> Unset,
          exc |-> ParseCsv(part.payload.lines, key_columns).exc]
    ELSE [wrote |-> part.filename, removed |-> part.filename,
          result |-> ParseCsv(part.payload.lines, key_columns).df, exc |-> NoError]

\* attachments_to_df, the branch of a 'text/csv' part
TextCsvPart(part) ==
    IF ~part.payload.decodable
    THEN [wrote |-> {}, removed |-> {}, result |-> Unset, exc |-> UnicodeDecodeError]
    ELSE [wrote |-> {}, removed |-> {},
          result |-> read_csv_text(part.payload.lines).df,
          exc |-> read_csv_text(part.payload.lines).exc]

\* attachments_to_df: the loop over msg.walk() from part i on
RECURSIVE Walk(_, _, _)
Walk(parts, i, key_columns) ==
    IF i > Len(parts)
    THEN [wrote |-> {}, removed |-> {}, result |-> None, exc |-> NoError]
    ELSE IF parts[i].maintype = "multipart" \/ ~parts[i].disposition
    THEN Walk(parts, i + 1, key_columns)
    ELSE IF parts[i].maintype = "application"
    THEN ApplicationPart(parts[i], key_columns)
    ELSE IF parts[i].type = "text/csv"
    THEN TextCsvPart(parts[i])
    ELSE Walk(parts, i + 1, key_columns)

\* VEEmail.attachments_to_df
attachments_to_df ==
    /\ call.op = "attachments_to_df"
    /\ call.state = "called"
    /\ LET r == Walk(call.args.msg, 1, {KeyColumns(call.args.key_columns)})
       IN  /\ call' = [op |-> "attachments_to_df", state |-> "done",
                       args |-> call.args, wrote |-> r.wrote,
                       result |-> r.result, exc |-> r.exc]
           /\ files' = (files \cup r.wrote) \ r.removed
    /\ UNCHANGED <<now, today, mainPeriodEnd, search_string>>
    /\ UNCHANGED pollVars

AttachmentArgs == [msg : Messages, key_columns : KeyArgs]

SearchArgs ==
    [from_email : Opt({"a@x.com"}),
     substrings_in_subject : Opt({<<>>, <<"s1">>, <<"s1", "s2">>}),
     exclude_subject_substring : Opt({"x"}),
     send_date : Opt({"01-Jan-2024"}),
     sent_today : BOOLEAN]

\* VEEmail.search_string before the call: as __init__ left it, or as an
\* earlier search did.
PriorSearchStrings == {<<>>, <<Crit("FROM", "old@x.com")>>}

MailCalls ==
    {Called("search_emails", args) : args \in SearchArgs}
    \cup {Called("extract_url_from_body", args) : args \in ExtractArgs}
    \cup {Called("parse_csv", args) : args \in ParseArgs}
    \cup {Called("attachments_to_df", args) : args \in AttachmentArgs}

MailInit ==
    /\ InitOf({})
    /\ now = 1
    /\ today = 1
    /\ mainPeriodEnd = IsoDate(1)
    /\ search_string \in PriorSearchStrings
    /\ files = {}
    /\ call \in MailCalls

MailNext ==
    \/ \E status \in {"OK", "NO"}, ids \in IdAnswers : search_emails(status, ids)
    \/ extract_url_from_body
    \/ parse_csv
    \/ attachments_to_df

SpecMail == MailInit /\ [][MailNext]_vars

\* s is t in another order.
IsPermutation(s, t) ==
    /\ Len(s) = Len(t)
    /\ \A x \in IdTokens :
           Cardinality({i \in 1..Len(s) : s[i] = x})
               = Cardinality({i \in 1..Len(t) : t[i] = x})

\* C14: search_emails returns the ids the server returned, each once, in
\* strictly descending numeric order, which is not the order of the byte
\* strings.
C14_IdsMostRecentFirst ==
    (call.op = "search_emails" /\ call.state = "done" /\ call.status = "OK") =>
        /\ IsPermutation(call.result, call.ids)
        /\ \A i, j \in 1..Len(call.result) :
               i < j => int(call.result[i]) > int(call.result[j])

C14_Witness ==
    /\ call.op = "search_emails"
    /\ call.state = "done"
    /\ call.ids = <<<<9>>, <<1, 0>>, <<2>>>>
    /\ call.result = <<<<1, 0>>, <<9>>, <<2>>>>

\* C20: search_emails called with send_date set and sent_today true raises
\* ValueError before anything else: no search is sent and search_string keeps
\* the value it had; in every call that does not raise, search_string is
\* afterwards the query that was sent to the server.
C20_BothDatesRaiseFirst ==
    (call.op = "search_emails" /\ call.state = "done") =>
        /\ (Given(call.args.send_date) /\ call.args.sent_today) =>
               /\ call.exc = BothDatesError
               /\ call.sent = <<>>
               /\ search_string = call.prior
        /\ call.exc = NoError =>
               /\ Len(call.sent) = 1
               /\ search_string = call.sent[1]

C20_Witness ==
    /\ call.op = "search_emails"
    /\ call.state = "done"
    /\ call.exc = BothDatesError
    /\ call.prior # <<>>
    /\ Given(call.args.from_email)

\* s starts with the pieces of p.
StartsWith(s, p) == Len(p) <= Len(s) /\ SubSeq(s, 1, Len(p)) = p

\* The entries of s that satisfy Keep, in order.
RECURSIVE Restrict(_, _)
Restrict(s, base) ==
    IF Len(s) = 0 THEN <<>>
    ELSE (IF StartsWith(s[1], base) THEN <<s[1]>> ELSE <<>>) \o Restrict(Tail(s), base)

\* The URLs of a body: the matches of https?://[^\s<>"\'()]+, those that start
\* with base_url when one is given.
UrlsOf(body, base_url) ==
    IF Given(base_url) THEN Restrict(findall(<<Scheme>>, body, 1), The(base_url))
    ELSE findall(<<Scheme>>, body, 1)

\* C15: extract_url_from_body returns a URL exactly when the body holds one
\* match of the URL pattern (of those with the base_url prefix when one is
\* given), and returns that match; with no match or several, two occurrences
\* of one URL included, it raises ValueError.
C15_OneUrlOrValueError ==
    (call.op = "extract_url_from_body" /\ call.state = "done") =>
        LET urls == UrlsOf(call.args.body, call.args.base_url)
        IN  /\ call.exc = NoError <=> Len(urls) = 1
            /\ call.exc = NoError => call.result = urls[1]
            /\ call.exc # NoError => call.exc.type = "ValueError"

\* The lines of a text that hold every key column.
HeaderLines(lines, keys) == {i \in 1..Len(lines) : AllIn(keys, lines[i])}

\* C19: parse_csv takes as header the first line that holds every key column
\* as a substring and parses from that line on, the lines before it dropped;
\* when no line holds them all it does not raise for that and parses from the
\* first line.
C19_HeaderIsFirstMatch ==
    (call.op = "parse_csv" /\ call.state = "done") =>
        LET lines == call.args.lines
            H == HeaderLines(lines, KeyColumns(call.args.key_columns))
        IN  /\ H # {} =>
                   /\ call.header \in H
                   /\ \A i \in H : call.header <= i
                   /\ call.parsed = SubSeq(lines, call.header, Len(lines))
            /\ H = {} => call.parsed = lines
            /\ call.exc = read_csv_text(call.parsed).exc
            /\ call.result = read_csv_text(call.parsed).df

C19_Witness ==
    /\ call.op = "parse_csv"
    /\ call.state = "done"
    /\ call.args.lines = <<<<"1", "1">>, <<"Day", "1">>, <<"Owner", "Day">>>>
    /\ call.header = 2
    /\ call.result = DataFrame(1)

\* C18: after attachments_to_df has handled an 'application' attachment with
\* a filename, the file it wrote no longer exists, whether the call returned a
\* DataFrame or raised while reading or parsing the file.
C18_TempFileRemoved ==
    (call.op = "attachments_to_df" /\ call.state = "done") =>
        call.wrote \cap files = {}

\* ------------------------------------------------- a long-lived process
\* The modules are loaded on day 1 (LibIdle: today and the default
\* mainPeriodEnd are computed then); days pass, and one call is made.

\* The date changes while the process lives.
Tick ==
    /\ now < Len(Calendar)
    /\ now' = now + 1
    /\ UNCHANGED <<today, mainPeriodEnd, search_string, files, call>>
    /\ UNCHANGED pollVars

DateCalls ==
    {Called("search_emails", args) : args \in SearchArgs}
    \cup {Called(op, [end |-> end, save |-> FALSE]) :
              op \in {"get_socialPosts", "get_summaryMetrics"}, end \in EndArgs}

DateInit ==
    /\ InitOf({})
    /\ now = 1
    /\ today = 1
    /\ mainPeriodEnd = IsoDate(1)
    /\ search_string = <<>>
    /\ files = {}
    /\ call \in DateCalls

DateNext ==
    \/ Tick
    \/ \E status \in {"OK", "NO"}, ids \in {<<>>, <<<<9>>>>} : search_emails(status, ids)
    \/ \E code \in HttpCodes, body \in {<<>>} : get_socialPosts(code, body)
    \/ \E code \in HttpCodes, body \in {<<>>} : get_summaryMetrics(code, body)

SpecDate == DateInit /\ [][DateNext]_vars

\* C16: every default that stands for the current date is the date at the
\* moment of the call, not the date the process started: the SENTON date of
\* search_emails(sent_today=True), and the mainPeriodEnd that get_socialPosts
\* and get_summaryMetrics use when the caller gives none.
C16_DatesAtCallTime ==
    /\ (/\ call.op = "search_emails"
        /\ call.state = "done"
        /\ call.exc = NoError
        /\ call.args.sent_today) =>
           call.sent[1][Len(call.sent[1])] = Crit("SENTON", ImapDate(call.at))
    /\ (/\ call.op \in {"get_socialPosts", "get_summaryMetrics"}
        /\ call.state = "done"
        /\ call.defaulted) =>
           call.date = IsoDate(call.at)

====
